---- MODULE Spec2Model ----
(***************************************************************************)
(* Model of rasa/core/channels/slack.py: the SlackInput webhook connector  *)
(* (classification, retry suppression, delivery to the engine callback),   *)
(* the SlackBot output channel (chat.postMessage calls) and the            *)
(* _sanitize_user_message text clean-up.                                   *)
(*                                                                         *)
(* Python dicts are modelled as TLA+ records whose DOMAIN is the set of    *)
(* keys present; a missing key is a key outside DOMAIN.  Expressions that  *)
(* may raise are modelled as results [raised |-> name] or                  *)
(* [raised |-> "", value |-> v].                                           *)
(***************************************************************************)
EXTENDS Integers, Sequences, FiniteSets, TLC

VARIABLES
    slack_token,          \* SlackInput.slack_token
    slack_channel,        \* SlackInput.slack_channel (target channel override)
    errors_ignore_retry,  \* SlackInput.errors_ignore_retry
    phase,                \* where the request, the call or the sanitization stands
    request,              \* the HTTP request being handled
    resp,                 \* the HTTP response of the handler
    delivered,            \* UserMessage envelopes passed to on_new_message for this request
    adapters,             \* SlackBot instances constructed for this request
    logged,               \* log records emitted for this request
    bot,                  \* a SlackBot instance: [slack_channel |-> ...]
    call,                 \* the output-channel call in progress and its arguments
    posts,                \* chat.postMessage api_calls issued by the call, in order
    sane                  \* inputs and outputs of _sanitize_user_message

vars == <<slack_token, slack_channel, errors_ignore_retry, phase, request, resp,
          delivered, adapters, logged, bot, call, posts, sane>>

-----------------------------------------------------------------------------
(* Python values *)

\* Python's None (also the result of dict.get / headers.get on a missing key).
None == "<None>"

\* Truth value of a str-or-None.
TruthyStr(v) == v # None /\ v # ""

\* Truth value of a list or of a text.
TruthySeq(s) == Len(s) > 0

\* Truth value of a dict.
TruthyDict(d) == DOMAIN d # {}

Has(d, k) == k \in DOMAIN d

\* dict.get(k): None when the key is missing.
Get(d, k) == IF Has(d, k) THEN d[k] ELSE None

Ok(v) == [raised |-> "", value |-> v]

Raise(e) == [raised |-> e]

\* The empty dict.
EmptyDict == [k \in {} |-> None]

\* A JSON document as received: either text that does not parse, or text
\* that parses to `value`.
NotJson == [valid |-> FALSE]

JsonText(v) == [valid |-> TRUE, value |-> v]

json_loads(s) == IF s.valid THEN Ok(s.value) ELSE Raise("JSONDecodeError")

\* json.dumps of a str or None, as sanic's response.json serialises it.
json_dumps(v) == IF v = None THEN "null" ELSE "\"" \o v \o "\""

-----------------------------------------------------------------------------
(* SlackInput._sanitize_user_message *)
(* A text is a sequence of lexemes: "<@" opens a mention, uid \o ">"       *)
(* closes the mention of uid, " " is whitespace and any other lexeme is    *)
(* ordinary text.  The mention token <@uid> is the two lexemes             *)
(* "<@", uid \o ">".                                                       *)

\* The characters matched by \s.
Whitespace == {" ", "\n", "\t"}

\* The pattern <@uid> as a sequence of lexeme classes.
Mention(uid) == <<{"<@"}, {uid \o ">"}>>

\* Mutant: the pass over the bare mention tokens is left out.
SubstitutionsWithoutBarePass(uid) ==
    << [regex |-> Mention(uid) \o <<Whitespace>>, replacement |-> <<>>],
       [regex |-> <<Whitespace>> \o Mention(uid), replacement |-> <<>>] >>

\* The three (regex, replacement) pairs of one uid, in order.
Substitutions(uid) ==
    << [regex |-> Mention(uid) \o <<Whitespace>>, replacement |-> <<>>],
       [regex |-> <<Whitespace>> \o Mention(uid), replacement |-> <<>>],
       [regex |-> Mention(uid), replacement |-> <<" ">>] >>

\* Does the regex match the text at position i?
MatchAt(regex, text, i) ==
    /\ i + Len(regex) - 1 <= Len(text)
    /\ \A k \in 1..Len(regex) : text[i + k - 1] \in regex[k]

RECURSIVE re_sub_from(_, _, _, _)
re_sub_from(regex, replacement, text, i) ==
    IF i > Len(text) THEN <<>>
    ELSE IF MatchAt(regex, text, i)
         THEN replacement \o re_sub_from(regex, replacement, text, i + Len(regex))
         ELSE <<text[i]>> \o re_sub_from(regex, replacement, text, i + 1)

\* re.sub: every leftmost non-overlapping match replaced, in one pass.
re_sub(regex, replacement, text) == re_sub_from(regex, replacement, text, 1)

RECURSIVE lstrip(_)
lstrip(text) ==
    IF text # <<>> /\ Head(text) \in Whitespace THEN lstrip(Tail(text)) ELSE text

RECURSIVE rstrip(_)
rstrip(text) ==
    IF text # <<>> /\ text[Len(text)] \in Whitespace
    THEN rstrip(SubSeq(text, 1, Len(text) - 1))
    ELSE text

\* The inner loop: the three substitutions of one uid applied in order.
RECURSIVE ApplySubstitutions(_, _, _)
ApplySubstitutions(subs, k, text) ==
    IF k > Len(subs) THEN text
    ELSE ApplySubstitutions(subs, k + 1,
                            re_sub(subs[k].regex, subs[k].replacement, text))

\* The outer loop over uids_to_remove, from position k on.
RECURSIVE RemoveUids(_, _, _)
RemoveUids(uids_to_remove, k, text) ==
    IF k > Len(uids_to_remove) THEN text
    ELSE RemoveUids(uids_to_remove, k + 1,
                    ApplySubstitutions(Substitutions(uids_to_remove[k]), 1, text))

_sanitize_user_message(text, uids_to_remove) ==
    lstrip(rstrip(RemoveUids(uids_to_remove, 1, text)))

-----------------------------------------------------------------------------
(* HTTP responses (sanic.response) *)

\* response.text(body, status, headers); a None body is sent as an empty one.
response_text(body, status, headers) ==
    [status |-> status, content_type |-> "text/plain",
     body |-> IF body = None THEN "" ELSE body, headers |-> headers]

\* response.json(value)
response_json(value) ==
    [status |-> 200, content_type |-> "application/json",
     body |-> value, headers |-> {}]

\* An exception that leaves the handler: the HTTP layer answers 500.
ServerError(e) ==
    [status |-> 500, content_type |-> "text/plain", body |-> e, headers |-> {}]

\* What one run of a handler produces.
Outcome(r, d, a, l) == [resp |-> r, delivered |-> d, adapters |-> a, logged |-> l]

Unhandled(e) == Outcome(ServerError(e), <<>>, <<>>, <<>>)

-----------------------------------------------------------------------------
(* SlackInput: classification *)

\* Mutant: the bot_id of the event is not looked at.
IsUserMessageOfAnyone(slack_event) ==
    /\ Has(slack_event, "event")
    /\ TruthyDict(slack_event.event)
    /\ \/ Get(slack_event.event, "type") = "message"
       \/ Get(slack_event.event, "type") = "app_mention"
    /\ Has(slack_event.event, "text")
    /\ TruthySeq(slack_event.event.text)

_is_user_message(slack_event) ==
    /\ Has(slack_event, "event")
    /\ TruthyDict(slack_event.event)
    /\ \/ Get(slack_event.event, "type") = "message"
       \/ Get(slack_event.event, "type") = "app_mention"
    /\ Has(slack_event.event, "text")
    /\ TruthySeq(slack_event.event.text)
    /\ ~ TruthyStr(Get(slack_event.event, "bot_id"))

_is_interactive_message(payload) ==
    IF Has(payload, "type") THEN Ok(payload.type = "interactive_message")
    ELSE Raise("KeyError")

_is_button(payload) ==
    IF ~ Has(payload, "actions") THEN Raise("KeyError")
    ELSE IF Len(payload.actions) = 0 THEN Raise("IndexError")
    ELSE IF ~ Has(payload.actions[1], "type") THEN Raise("KeyError")
    ELSE Ok(payload.actions[1].type = "button")

_is_button_reply(slack_event) ==
    IF ~ Has(slack_event, "payload") THEN Raise("KeyError")
    ELSE LET payload == json_loads(slack_event.payload)
         IN IF payload.raised # "" THEN payload
            ELSE LET interactive == _is_interactive_message(payload.value)
                 IN IF interactive.raised # "" THEN interactive
                    ELSE IF ~ interactive.value THEN Ok(FALSE)
                    ELSE _is_button(payload.value)

_get_button_reply(slack_event) ==
    LET payload == json_loads(slack_event.payload).value
    IN IF Has(payload.actions[1], "name") THEN Ok(payload.actions[1].name)
       ELSE Raise("KeyError")

\* json.loads(output["payload"])["user"]["id"]
ButtonSender(output) ==
    LET payload == json_loads(output.payload).value
    IN IF Has(payload, "user") /\ Has(payload.user, "id") THEN Ok(payload.user.id)
       ELSE Raise("KeyError")

-----------------------------------------------------------------------------
(* SlackInput: delivery *)

\* SlackBot(token, slack_channel)
SlackBot(token, channel) == [token |-> token, slack_channel |-> channel]

\* UserMessage(text, out_channel, sender_id, input_channel=self.name())
UserMessage(text, out_channel, sender_id) ==
    [text |-> text, output_channel |-> out_channel, sender_id |-> sender_id,
     input_channel |-> "slack"]

\* What the collaborators called inside the try block may do.
Engines == {"ok", "adapter_raises", "envelope_raises", "callback_raises"}

\* The two logger.error records of the except clause.
ErrorLog == <<"error", "error">>

\* Mutant: every retry is suppressed, whatever its reason.
IgnoredRetryOfAnyReason(headers) == TruthyStr(headers.retry_count)

\* The retry test of process_message.
IgnoredRetry(headers) ==
    /\ TruthyStr(headers.retry_count)
    /\ headers.retry_reason \in errors_ignore_retry

\* Mutant: no except clause, an exception of the callback leaves the handler.
DeliverWithoutExcept(text, sender_id, engine) ==
    LET out_channel == SlackBot(slack_token, slack_channel)
        user_msg == UserMessage(text, out_channel, sender_id)
    IN IF engine = "ok"
       THEN Outcome(response_text("", 200, {}), <<user_msg>>, <<out_channel>>, <<>>)
       ELSE Outcome(ServerError("Exception"),
                    IF engine = "callback_raises" THEN <<user_msg>> ELSE <<>>,
                    IF engine = "adapter_raises" THEN <<>> ELSE <<out_channel>>,
                    <<>>)

\* The try/except block of process_message and the return after it.
Deliver(text, sender_id, engine) ==
    LET out_channel == SlackBot(slack_token, slack_channel)
        user_msg == UserMessage(text, out_channel, sender_id)
        ack == response_text("", 200, {})
    IN CASE engine = "adapter_raises" ->
              Outcome(ack, <<>>, <<>>, ErrorLog)
         [] engine = "envelope_raises" ->
              Outcome(ack, <<>>, <<out_channel>>, ErrorLog)
         [] engine = "callback_raises" ->
              Outcome(ack, <<user_msg>>, <<out_channel>>, ErrorLog)
         [] OTHER ->
              Outcome(ack, <<user_msg>>, <<out_channel>>, <<>>)

process_message(req, text, sender_id, engine) ==
    IF IgnoredRetry(req.headers)
    THEN Outcome(response_text(None, 201, {<<"X-Slack-No-Retry", 1>>}),
                 <<>>, <<>>, <<"warning">>)
    ELSE Deliver(text, sender_id, engine)

-----------------------------------------------------------------------------
(* SlackInput.blueprint: the routes *)

\* request.json: no JSON body, a JSON object, or a non-empty JSON array.
NoJson == [kind |-> "none"]

JsonDict(d) == [kind |-> "dict", d |-> d]

JsonList == [kind |-> "list"]

\* Truth value of request.json.
TruthyJson(j) == j.kind = "list" \/ (j.kind = "dict" /\ TruthyDict(j.d))

\* The form branch of webhook.
WebhookForm(req, engine) ==
    LET output == req.form
        button == _is_button_reply(output)
    IN IF button.raised # "" THEN Unhandled(button.raised)
       ELSE IF ~ button.value THEN Outcome(response_text("", 200, {}), <<>>, <<>>, <<>>)
       ELSE LET sender_id == ButtonSender(output)
                text == _get_button_reply(output)
            IN IF sender_id.raised # "" THEN Unhandled(sender_id.raised)
               ELSE IF text.raised # "" THEN Unhandled(text.raised)
               ELSE process_message(req, text.value, sender_id.value, engine)

\* Mutant: the challenge is tested for its truth value, not its presence.
IsTruthyChallenge(output) == TruthyStr(Get(output, "challenge"))

\* "challenge" in output
IsChallenge(output) == Has(output, "challenge")

\* The JSON branch of webhook.
WebhookJson(req, engine) ==
    LET output == req.json
    IN IF output.kind = "list" THEN Unhandled("AttributeError")
       ELSE IF IsChallenge(output.d)
            THEN Outcome(response_json(json_dumps(output.d.challenge)), <<>>, <<>>, <<>>)
       ELSE IF _is_user_message(output.d)
            THEN IF ~ Has(output.d, "authed_users") THEN Unhandled("KeyError")
                 ELSE process_message(
                          req,
                          _sanitize_user_message(output.d.event.text,
                                                 output.d.authed_users),
                          Get(output.d.event, "user"),
                          engine)
       ELSE Outcome(response_text("", 200, {}), <<>>, <<>>, <<>>)

\* The handler of /webhook (GET and POST).
webhook(req, engine) ==
    IF TruthyDict(req.form) THEN WebhookForm(req, engine)
    ELSE IF TruthyJson(req.json) THEN WebhookJson(req, engine)
    ELSE Outcome(response_text("", 200, {}), <<>>, <<>>, <<>>)

\* The handler of GET /.
health(req) == Outcome(response_json("{\"status\": \"ok\"}"), <<>>, <<>>, <<>>)

-----------------------------------------------------------------------------
(* Inbound requests *)

\* The dicts with at most the key k, its value drawn from values.
Optional(k, values) == {EmptyDict} \cup {k :> v : v \in values}

ButtonName == <<"/yes">>

\* The "actions" lists of interactive payloads.
ActionLists ==
    { <<>>,
      <<[type |-> "button", name |-> ButtonName]>>,
      <<[type |-> "button"]>>,
      <<[name |-> ButtonName]>>,
      <<[type |-> "select", name |-> ButtonName]>>,
      <<[type |-> "select", name |-> ButtonName],
        [type |-> "button", name |-> ButtonName]>> }

\* Parsed interactive payloads {type, actions, user: {id}}, any key missing.
Payloads ==
    { t @@ a @@ u :
        t \in Optional("type", {"interactive_message", "dialog_submission"}),
        a \in Optional("actions", ActionLists),
        u \in Optional("user", {EmptyDict, [id |-> "U1"]}) }

\* request.form: empty, without a payload field, or with one.  The value of
\* the payload field is the str that _is_button_reply hands to json.loads.
Forms ==
    {EmptyDict, [token |-> "t"], [payload |-> NotJson]}
        \cup {[payload |-> JsonText(p)] : p \in Payloads}

MentionText == <<"<@", "A>", " ", "hi">>

\* Event objects {type, text, user, bot_id}, any key missing.
Events ==
    { t @@ x @@ u @@ b :
        t \in Optional("type", {"message", "app_mention", "reaction_added"}),
        x \in Optional("text", {<<>>, MentionText}),
        u \in Optional("user", {"U1"}),
        b \in Optional("bot_id", {None, "", "B1"}) }

\* JSON objects {challenge, event, authed_users}, any key missing.
JsonObjects ==
    { c @@ e @@ a :
        c \in Optional("challenge", {"abc123", "", None}),
        e \in Optional("event", Events),
        a \in Optional("authed_users", {<<"A">>}) }

Jsons == {NoJson, JsonList} \cup {JsonDict(d) : d \in JsonObjects}

\* The retry headers as request.headers.get reads them, under the names
\* HTTP_X_SLACK_RETRY_NUM (retry_count) and HTTP_X_SLACK_RETRY_REASON
\* (retry_reason): None when the header is missing.
Headers ==
    [retry_count : {None, "", "1"},
     retry_reason : {None, "http_timeout", "some_other_reason"}]

ButtonClickForm ==
    [payload |-> JsonText([type |-> "interactive_message",
                           actions |-> <<[type |-> "button", name |-> ButtonName]>>,
                           user |-> [id |-> "U1"]])]

UserMessageJson ==
    JsonDict([event |-> [type |-> "message", text |-> MentionText, user |-> "U1"],
              authed_users |-> <<"A">>])

\* Form and JSON bodies; a body that parses both ways is rare but possible.
Bodies ==
    {[form |-> f, json |-> NoJson] : f \in Forms}
        \cup {[form |-> EmptyDict, json |-> j] : j \in Jsons}
        \cup {[form |-> f, json |-> j] :
                f \in {ButtonClickForm, [token |-> "t"]},
                j \in {UserMessageJson, JsonDict([challenge |-> "abc123"])}}

WebhookRequests ==
    {[path |-> "/webhook", method |-> m, form |-> b.form, json |-> b.json,
      headers |-> h] : m \in {"GET", "POST"}, b \in Bodies, h \in Headers}

HealthRequests ==
    {[path |-> "/", method |-> "GET", form |-> EmptyDict, json |-> NoJson,
      headers |-> h] : h \in Headers}

Requests == WebhookRequests \cup HealthRequests

-----------------------------------------------------------------------------
(* State of the connector between requests *)

NoRequest == [path |-> "none"]

NoResponse == [status |-> 0]

NoCall == [op |-> "none"]

NoBot == [slack_channel |-> None]

NoSane == [stage |-> "none"]

\* SlackInput.__init__(slack_token, slack_channel, errors_ignore_retry)
SlackInput(token, channel, ignore) ==
    /\ slack_token = token
    /\ slack_channel = channel
    /\ errors_ignore_retry = IF ignore # {} THEN ignore ELSE {"http_timeout"}

Init ==
    /\ \E channel \in {None, "C1"}, ignore \in {{}, {"some_other_reason"}} :
           SlackInput("xoxb-token", channel, ignore)
    /\ phase = "idle"
    /\ request = NoRequest
    /\ resp = NoResponse
    /\ delivered = <<>>
    /\ adapters = <<>>
    /\ logged = <<>>
    /\ bot = NoBot
    /\ call = NoCall
    /\ posts = <<>>
    /\ sane = NoSane

\* The HTTP layer hands a request to the blueprint.
Receive ==
    /\ phase = "idle"
    /\ phase' = "received"
    /\ request' \in Requests
    /\ UNCHANGED <<slack_token, slack_channel, errors_ignore_retry, resp,
                   delivered, adapters, logged, bot, call, posts, sane>>

Respond(outcome) ==
    /\ phase' = "responded"
    /\ resp' = outcome.resp
    /\ delivered' = outcome.delivered
    /\ adapters' = outcome.adapters
    /\ logged' = outcome.logged
    /\ UNCHANGED <<slack_token, slack_channel, errors_ignore_retry, request,
                   bot, call, posts, sane>>

\* Route /webhook, methods GET and POST.
Webhook ==
    /\ phase = "received"
    /\ request.path = "/webhook"
    /\ \E engine \in Engines : Respond(webhook(request, engine))

\* Route /, method GET.
Health ==
    /\ phase = "received"
    /\ request.path = "/"
    /\ Respond(health(request))

\* The response is sent; nothing of the request is kept.
Finish ==
    /\ phase = "responded"
    /\ phase' = "idle"
    /\ request' = NoRequest
    /\ resp' = NoResponse
    /\ delivered' = <<>>
    /\ adapters' = <<>>
    /\ logged' = <<>>
    /\ UNCHANGED <<slack_token, slack_channel, errors_ignore_retry,
                   bot, call, posts, sane>>

Next ==
    \/ Receive
    \/ Webhook
    \/ Health
    \/ Finish

Spec == Init /\ [][Next]_vars

-----------------------------------------------------------------------------
(* Claims about the webhook, checked under Spec *)

\* A /webhook request has been handled and its response is in resp.
Responded == phase = "responded" /\ request.path = "/webhook"

\* The empty success response.
EmptyOk == response_text("", 200, {})

\* The retry-suppression response: 201, X-Slack-No-Retry: 1, empty body.
NoRetry == [status |-> 201, content_type |-> "text/plain", body |-> "",
            headers |-> {<<"X-Slack-No-Retry", 1>>}]

\* The request carries form fields whose payload is an interactive_message
\* with a button as first action.
ButtonClick(req) ==
    /\ req.form # EmptyDict
    /\ Has(req.form, "payload")
    /\ req.form.payload.valid
    /\ LET p == req.form.payload.value
       IN /\ Has(p, "type") /\ p.type = "interactive_message"
          /\ Has(p, "actions") /\ Len(p.actions) > 0
          /\ Has(p.actions[1], "type") /\ p.actions[1].type = "button"

\* The request is a JSON request (no form fields, a JSON object as body).
JsonRequest(req) == req.form = EmptyDict /\ req.json.kind = "dict"

\* A bot_id with a value: neither missing, null nor empty.
BotIdSet(event) == Has(event, "bot_id") /\ event.bot_id \notin {None, ""}

\* The request is a JSON event of type message/app_mention with non-empty
\* text and no bot id, and is no challenge.
UserMessageEvent(req) ==
    /\ JsonRequest(req)
    /\ ~ Has(req.json.d, "challenge")
    /\ Has(req.json.d, "event")
    /\ LET e == req.json.d.event
       IN /\ Has(e, "type") /\ e.type \in {"message", "app_mention"}
          /\ Has(e, "text") /\ e.text # <<>>
          /\ ~ BotIdSet(e)

\* The request reaches process_message: it is a button click or a user
\* message and the fields read from it (sender and text) are there.
ReachesDelivery(req) ==
    \/ /\ ButtonClick(req)
       /\ LET p == req.form.payload.value
          IN /\ Has(p, "user") /\ Has(p.user, "id")
             /\ Has(p.actions[1], "name")
    \/ /\ UserMessageEvent(req)
       /\ Has(req.json.d, "authed_users")

\* A retry-count header is present and its reason is one to suppress.
RetryToSuppress(req) ==
    /\ req.headers.retry_count \notin {None, ""}
    /\ req.headers.retry_reason \in errors_ignore_retry

\* C1 (as claimed): whatever the body of a POST /webhook request, a retry
\* whose reason is to be suppressed is answered 201 with X-Slack-No-Retry: 1
\* and an empty body, and the engine callback is not invoked.  (Stated for
\* the requests on which the handler does not raise.)
C1_RetryCheckedFirst ==
    (Responded /\ request.method = "POST" /\ RetryToSuppress(request)
        /\ resp.status # 500)
        => (resp = NoRetry /\ delivered = <<>>)

\* C1 (amended): the retry test is made in process_message, after
\* classification.  A request is answered 201 with X-Slack-No-Retry: 1 and an
\* empty body exactly when it reaches delivery, its retry count is non-empty
\* and its retry reason is one to suppress; then no adapter is constructed
\* and the engine callback is not invoked.
C1_RetrySuppressedInDelivery ==
    Responded =>
        /\ (resp.status = 201) <=>
               /\ ReachesDelivery(request)
               /\ request.headers.retry_count \notin {None, ""}
               /\ request.headers.retry_reason \in errors_ignore_retry
        /\ (resp.status = 201) =>
               /\ resp = NoRetry
               /\ delivered = <<>>
               /\ adapters = <<>>
               /\ logged = <<"warning">>

\* C1 witness: a user message redelivered after http_timeout was answered 201.
C1_Witness ==
    /\ Responded
    /\ request.method = "POST"
    /\ UserMessageEvent(request)
    /\ request.headers = [retry_count |-> "1", retry_reason |-> "http_timeout"]
    /\ resp = NoRetry
    /\ delivered = <<>>

\* C2 (as claimed): the handler never answers with an error status, and a
\* payload of no recognized shape is answered with the empty success response.
C2_IgnoreUnknown ==
    Responded =>
        /\ resp.status \in {200, 201}
        /\ (~ ReachesDelivery(request)
            /\ ~ (JsonRequest(request) /\ Has(request.json.d, "challenge")))
               => resp = EmptyOk

\* C3 (as claimed): a JSON event whose event object has a bot_id key, whatever
\* its value (empty and null included), produces no invocation of the engine
\* callback.
C3_BotIdPresentNeverDelivered ==
    (Responded /\ JsonRequest(request) /\ Has(request.json.d, "event")
        /\ Has(request.json.d.event, "bot_id"))
        => delivered = <<>>

\* C3 (amended): a JSON event whose event object has a non-empty, non-null
\* bot_id is not classified as a user message, whatever its type and text,
\* and the engine callback is not invoked for it.
C3_BotIdSetNeverDelivered ==
    (Responded /\ JsonRequest(request) /\ Has(request.json.d, "event")
        /\ BotIdSet(request.json.d.event))
        => (~ _is_user_message(request.json.d) /\ delivered = <<>> /\ adapters = <<>>)

\* C3 witness: a message event with text, posted by bot B1, was acknowledged
\* without delivery.
C3_Witness ==
    /\ Responded
    /\ JsonRequest(request)
    /\ ~ Has(request.json.d, "challenge")
    /\ Has(request.json.d, "event") /\ Has(request.json.d, "authed_users")
    /\ Get(request.json.d.event, "type") = "message"
    /\ Get(request.json.d.event, "bot_id") = "B1"
    /\ Has(request.json.d.event, "text") /\ request.json.d.event.text = MentionText
    /\ resp = EmptyOk
    /\ delivered = <<>>

\* C5: when a request reaches the try block of process_message (it reaches
\* delivery and is no suppressed retry), the response is the empty success
\* response whether the callback, the adapter or the envelope raised or not;
\* an error is logged exactly when one of them raised.
C5_CallbackFailureSwallowed ==
    (Responded /\ ReachesDelivery(request) /\ resp.status # 201)
        => /\ resp = EmptyOk
           /\ logged \in {<<>>, ErrorLog}
           /\ logged = <<>> => Len(delivered) = 1

\* C5 witness: the callback was invoked, raised, the error was logged and the
\* response is the empty success response.
C5_Witness ==
    /\ Responded
    /\ ReachesDelivery(request)
    /\ Len(delivered) = 1
    /\ logged = ErrorLog
    /\ resp = EmptyOk

\* C6: a JSON request whose body has a challenge field is answered with the
\* challenge value as JSON; the engine callback is not invoked and no adapter
\* is constructed, also when the body has a user-message event.
C6_ChallengeEchoed ==
    (Responded /\ JsonRequest(request) /\ Has(request.json.d, "challenge"))
        => /\ resp = [status |-> 200, content_type |-> "application/json",
                      body |-> json_dumps(request.json.d.challenge),
                      headers |-> {}]
           /\ delivered = <<>>
           /\ adapters = <<>>
           /\ logged = <<>>

\* C6 witness: a body with challenge "abc123" and a user-message event was
\* answered "abc123".
C6_Witness ==
    /\ Responded
    /\ JsonRequest(request)
    /\ Get(request.json.d, "challenge") = "abc123"
    /\ _is_user_message(request.json.d)
    /\ Has(request.json.d, "authed_users")
    /\ resp.body = "\"abc123\""
    /\ delivered = <<>>

\* C10 (as claimed): the engine callback is invoked exactly once, with one
\* fresh adapter, if and only if the request is a button click or a user
\* message and is no suppressed retry; otherwise it is not invoked.  (Runs in
\* which the adapter or the envelope could not be constructed are left out.)
C10_ExactlyOnceDelivery ==
    (Responded /\ ~ (logged = ErrorLog /\ delivered = <<>>))
        => /\ Len(delivered) <= 1
           /\ Len(adapters) <= 1
           /\ (Len(delivered) = 1 /\ Len(adapters) = 1) <=>
                  /\ ButtonClick(request) \/ UserMessageEvent(request)
                  /\ ~ (request.headers.retry_count \notin {None, ""}
                        /\ request.headers.retry_reason \in errors_ignore_retry)

-----------------------------------------------------------------------------
(* SlackBot: the output channel *)
(* A message is a sequence of characters.                                  *)

\* The platform's limit on buttons per message.
MaxSlackButtons == 5

\* The length callback_id is cut to.
CallbackIdLen == 20

\* Mutant: the override is ignored.
RecipientWithoutOverride(b, recipient_id) == recipient_id

\* self.slack_channel or recipient_id
Recipient(b, recipient_id) ==
    IF TruthyStr(b.slack_channel) THEN b.slack_channel ELSE recipient_id

RECURSIVE split_from(_, _, _)
split_from(message, i, part) ==
    IF i > Len(message) THEN <<part>>
    ELSE IF i < Len(message) /\ message[i] = "\n" /\ message[i + 1] = "\n"
         THEN <<part>> \o split_from(message, i + 2, <<>>)
         ELSE split_from(message, i + 1, Append(part, message[i]))

\* Mutant: the parts come out last first.
SplitReversed(message) ==
    LET parts == split_from(message, 1, <<>>)
    IN [k \in 1..Len(parts) |-> parts[Len(parts) + 1 - k]]

\* message.split("\n\n")
split(message) == split_from(message, 1, <<>>)

\* The chat.postMessage call of send_text_message for one part.
TextPost(recipient, message_part) ==
    [method |-> "chat.postMessage", channel |-> recipient, as_user |-> TRUE,
     text |-> message_part]

\* The chat.postMessage call of send_image_url.
ImagePost(recipient, image_url, message) ==
    [method |-> "chat.postMessage", channel |-> recipient, as_user |-> TRUE,
     attachments |-> <<[image_url |-> image_url, text |-> message]>>]

\* The chat.postMessage call of send_attachment.
AttachmentPost(recipient, attachment, message) ==
    [method |-> "chat.postMessage", channel |-> recipient, as_user |-> TRUE,
     text |-> message, attachments |-> attachment]

_convert_to_slack_buttons(buttons) ==
    [k \in 1..Len(buttons) |->
        [text |-> buttons[k].title, name |-> buttons[k].payload,
         value |-> buttons[k].payload, type |-> "button"]]

RECURSIVE _get_text_from_slack_buttons(_)
_get_text_from_slack_buttons(buttons) ==
    IF buttons = <<>> THEN <<>>
    ELSE Get(Head(buttons), "title") \o _get_text_from_slack_buttons(Tail(buttons))

\* s.replace(" ", "_")[:20]
CallbackString(s) ==
    [k \in 1..(IF Len(s) < CallbackIdLen THEN Len(s) ELSE CallbackIdLen) |->
        IF s[k] = " " THEN "_" ELSE s[k]]

\* The chat.postMessage call of send_text_with_buttons.
ButtonsPost(recipient, message, buttons) ==
    LET callback_string ==
            IF TruthySeq(message) THEN CallbackString(message)
            ELSE CallbackString(_get_text_from_slack_buttons(buttons))
        button_attachment ==
            <<[fallback |-> message, callback_id |-> callback_string,
               actions |-> _convert_to_slack_buttons(buttons)]>>
    IN [method |-> "chat.postMessage", channel |-> recipient, as_user |-> TRUE,
        text |-> message, attachments |-> button_attachment]

\* Mutant: the limit is off by one.
TooManyButtonsFromFive(buttons) == Len(buttons) >= MaxSlackButtons

\* len(buttons) > 5
TooManyButtons(buttons) == Len(buttons) > MaxSlackButtons

\* What one api_call may do: return, raise before the message is posted, or
\* raise after it was posted.
ApiOutcomes == {"ok", "raises_before", "raises_after"}

\* A call that is over: the posts made, and whether it raised.
Over(op, args, recipient, raised) ==
    [op |-> op, args |-> args, recipient_id |-> args.recipient_id,
     recipient |-> recipient, parts |-> <<>>, i |-> 1, raised |-> raised]

\* A call inside the loop of send_text_message(recipient_id, message).
Looping(op, args, recipient_id, message) ==
    [op |-> op, args |-> args, recipient_id |-> recipient_id,
     recipient |-> Recipient(bot, recipient_id), parts |-> split(message),
     i |-> 1, raised |-> FALSE]

-----------------------------------------------------------------------------
(* Outbound calls *)

MaxMessageLen == 4

MaxButtonMessageLen == 2

MaxButtons == 6

Chars == {"a", " ", "\n"}

SeqsUpTo(S, n) == UNION {[1..k -> S] : k \in 0..n}

TextMessages == SeqsUpTo(Chars, MaxMessageLen)

ButtonMessages == SeqsUpTo(Chars, MaxButtonMessageLen)

Buttons == {[title |-> <<"Y", "e", "s">>, payload |-> <<"/yes">>],
            [title |-> <<"N", "o">>, payload |-> <<"/no">>]}

ButtonLists == SeqsUpTo(Buttons, MaxButtons)

Recipients == {"U1", "U2"}

Captions == {<<>>, <<"a">>}

Attachments == {<<>>, <<[title |-> "card"]>>}

InitSend ==
    /\ SlackInput("xoxb-token", None, {})
    /\ phase = "idle"
    /\ request = NoRequest
    /\ resp = NoResponse
    /\ delivered = <<>>
    /\ adapters = <<>>
    /\ logged = <<>>
    /\ bot \in {SlackBot("xoxb-token", channel) : channel \in {None, "", "C1"}}
    /\ call = NoCall
    /\ posts = <<>>
    /\ sane = NoSane

Unsent == <<slack_token, slack_channel, errors_ignore_retry, request, resp,
            delivered, adapters, logged, bot, sane>>

\* One api_call that ends its call.
SinglePost(op, args, post) ==
    \E outcome \in ApiOutcomes :
        /\ phase' = "returned"
        /\ posts' = IF outcome = "raises_before" THEN <<>> ELSE <<post>>
        /\ call' = Over(op, args, post.channel, outcome # "ok")
        /\ UNCHANGED Unsent

\* send_text_message(recipient_id, message) is called.
SendTextMessage ==
    /\ phase = "idle"
    /\ \E recipient_id \in Recipients, message \in TextMessages :
           /\ call' = Looping("send_text_message",
                              [recipient_id |-> recipient_id, message |-> message],
                              recipient_id, message)
           /\ phase' = "calling"
           /\ posts' = <<>>
           /\ UNCHANGED Unsent

\* One iteration of the loop of send_text_message.
PostPart ==
    /\ phase = "calling"
    /\ \E outcome \in ApiOutcomes :
           /\ posts' = IF outcome = "raises_before" THEN posts
                       ELSE Append(posts, TextPost(call.recipient, call.parts[call.i]))
           /\ call' = [call EXCEPT !.i = IF outcome = "ok" THEN @ + 1 ELSE @,
                                   !.raised = outcome # "ok"]
           /\ phase' = IF outcome = "ok" /\ call.i < Len(call.parts)
                       THEN "calling" ELSE "returned"
           /\ UNCHANGED Unsent

\* send_image_url(recipient_id, image_url, message)
SendImageUrl ==
    /\ phase = "idle"
    /\ \E recipient_id \in Recipients, message \in Captions :
           SinglePost("send_image_url",
                      [recipient_id |-> recipient_id, image_url |-> "http://img",
                       message |-> message],
                      ImagePost(Recipient(bot, recipient_id), "http://img", message))

\* send_attachment(recipient_id, attachment, message)
SendAttachment ==
    /\ phase = "idle"
    /\ \E recipient_id \in Recipients, attachment \in Attachments, message \in Captions :
           SinglePost("send_attachment",
                      [recipient_id |-> recipient_id, attachment |-> attachment,
                       message |-> message],
                      AttachmentPost(Recipient(bot, recipient_id), attachment, message))

\* send_text_with_buttons(recipient_id, message, buttons)
SendTextWithButtons ==
    /\ phase = "idle"
    /\ \E recipient_id \in Recipients, message \in ButtonMessages, buttons \in ButtonLists :
           LET args == [recipient_id |-> recipient_id, message |-> message,
                        buttons |-> buttons]
               recipient == Recipient(bot, recipient_id)
           IN IF TooManyButtons(buttons)
              THEN /\ call' = Looping("send_text_with_buttons", args, recipient, message)
                   /\ phase' = "calling"
                   /\ posts' = <<>>
                   /\ UNCHANGED Unsent
              ELSE SinglePost("send_text_with_buttons", args,
                              ButtonsPost(recipient, message, buttons))

\* The call returns (or its exception leaves it) to the engine.
Return ==
    /\ phase = "returned"
    /\ phase' = "idle"
    /\ call' = NoCall
    /\ posts' = <<>>
    /\ UNCHANGED Unsent

NextSend ==
    \/ SendTextMessage
    \/ PostPart
    \/ SendImageUrl
    \/ SendAttachment
    \/ SendTextWithButtons
    \/ Return

SpecSend == InitSend /\ [][NextSend]_vars

-----------------------------------------------------------------------------
(* Claims about the output channel, checked under SpecSend *)

\* The call is over and none of its api_calls raised.
Completed(op) == phase = "returned" /\ call.op = op /\ ~ call.raised

\* The channel a post of the current call must carry.
Destination ==
    IF bot.slack_channel \notin {None, ""} THEN bot.slack_channel
    ELSE call.args.recipient_id

\* The button b in the platform's schema.
SlackButton(b) ==
    [text |-> b.title, name |-> b.payload, value |-> b.payload, type |-> "button"]

\* The post is a text-only post of the part: it carries no attachment.
IsTextPost(post, part) ==
    /\ DOMAIN post = {"method", "channel", "as_user", "text"}
    /\ post.method = "chat.postMessage"
    /\ post.as_user
    /\ post.text = part

\* The message has a double newline somewhere.
HasDoubleNewline(message) ==
    \E k \in 1..(Len(message) - 1) : message[k] = "\n" /\ message[k + 1] = "\n"

\* The parts joined again with a double newline between them.
RECURSIVE Join(_)
Join(parts) ==
    IF Len(parts) = 0 THEN <<>>
    ELSE IF Len(parts) = 1 THEN parts[1]
    ELSE parts[1] \o <<"\n", "\n">> \o Join(Tail(parts))

\* With at most 5 buttons: one post, text = message, one attachment whose
\* actions are the converted buttons in input order.
OneButtonsPost ==
    /\ Len(posts) = 1
    /\ DOMAIN posts[1] = {"method", "channel", "as_user", "text", "attachments"}
    /\ posts[1].text = call.args.message
    /\ Len(posts[1].attachments) = 1
    /\ posts[1].attachments[1].fallback = call.args.message
    /\ Len(posts[1].attachments[1].actions) = Len(call.args.buttons)
    /\ \A k \in 1..Len(call.args.buttons) :
           posts[1].attachments[1].actions[k] = SlackButton(call.args.buttons[k])

\* C4 (as claimed): send_text_with_buttons with at most 5 buttons issues one
\* post with the buttons as the actions of its attachment; with more than 5
\* it issues exactly one post, and that post carries no attachment.
C4_OnePostEitherWay ==
    Completed("send_text_with_buttons") =>
        IF Len(call.args.buttons) <= 5 THEN OneButtonsPost
        ELSE Len(posts) = 1 /\ IsTextPost(posts[1], call.args.message)

\* C4 (amended): with at most 5 buttons as claimed; with more than 5 buttons
\* send_text_with_buttons issues what send_text_message issues for the
\* message: one text-only post per double-newline part, in order (one post
\* only when the message has no double newline), and no post with an
\* attachment.
C4_ButtonsOrTextFallback ==
    Completed("send_text_with_buttons") =>
        IF Len(call.args.buttons) <= 5 THEN OneButtonsPost
        ELSE /\ Len(posts) >= 1
             /\ Len(posts) = 1 <=> ~ HasDoubleNewline(call.args.message)
             /\ \A k \in 1..Len(posts) : DOMAIN posts[k] = {"method", "channel", "as_user", "text"}
             /\ Join([k \in 1..Len(posts) |-> posts[k].text]) = call.args.message
             /\ \A k \in 1..Len(posts) : ~ HasDoubleNewline(posts[k].text)

\* C4 witness: 6 buttons and a message with a double newline gave 2 text posts.
C4_Witness ==
    /\ Completed("send_text_with_buttons")
    /\ Len(call.args.buttons) = 6
    /\ call.args.message = <<"\n", "\n">>
    /\ Len(posts) = 2
    /\ \A k \in 1..2 : IsTextPost(posts[k], <<>>)

\* C7: at every point of send_text_message the posts issued so far are
\* text-only posts of the first parts of the message, in order, each part at
\* most once; when no post call failed there is one post per part.
\* ("a\n\n " gives the posts "a" then " ".)
C7_PostsArePrefixOfParts ==
    (phase \in {"calling", "returned"} /\ call.op = "send_text_message") =>
        LET parts == split(call.args.message)
        IN /\ Len(posts) <= Len(parts)
           /\ \A k \in 1..Len(posts) : IsTextPost(posts[k], parts[k])
           /\ Completed("send_text_message") =>
                  /\ Len(posts) = Len(parts)
                  /\ Join([k \in 1..Len(posts) |-> posts[k].text]) = call.args.message
                  /\ call.args.message = <<"a", "\n", "\n", " ">> =>
                         /\ Len(posts) = 2
                         /\ posts[1].text = <<"a">>
                         /\ posts[2].text = <<" ">>

\* C7 witness: the second post of "a\n\n " failed; only "a" was posted.
C7_Witness ==
    /\ phase = "returned"
    /\ call.op = "send_text_message"
    /\ call.raised
    /\ call.args.message = <<"a", "\n", "\n", " ">>
    /\ Len(posts) = 1
    /\ posts[1].text = <<"a">>

\* C9: every post of every output-channel call carries the override as its
\* channel when one is configured and the recipient_id of the call
\* otherwise, and no step of a call changes the adapter's override.
C9_ReplyDestination ==
    [][/\ bot' = bot
       /\ \A k \in 1..Len(posts') : posts'[k].channel = Destination']_vars

\* C9 witness: with override "C1", the fallback of a call with 6 buttons for
\* recipient U1 posted to C1.
C9_Witness ==
    /\ Completed("send_text_with_buttons")
    /\ Len(call.args.buttons) = 6
    /\ call.args.recipient_id = "U1"
    /\ bot.slack_channel = "C1"
    /\ Len(posts) = 1
    /\ posts[1].channel = "C1"

-----------------------------------------------------------------------------
(* _sanitize_user_message applied, and applied again to its own output *)

MaxTextLen == 5

Lexemes == {"<@", "A>", "B>", " ", "x"}

Texts == SeqsUpTo(Lexemes, MaxTextLen)

UidLists == {<<"A">>, <<"B">>, <<"A", "B">>, <<"B", "A">>}

InitSanitize ==
    /\ SlackInput("xoxb-token", None, {})
    /\ phase = "input"
    /\ request = NoRequest
    /\ resp = NoResponse
    /\ delivered = <<>>
    /\ adapters = <<>>
    /\ logged = <<>>
    /\ bot = NoBot
    /\ call = NoCall
    /\ posts = <<>>
    /\ sane \in [stage : {"input"}, text : Texts, uids_to_remove : UidLists]

Unsanitized == <<slack_token, slack_channel, errors_ignore_retry, request, resp,
                 delivered, adapters, logged, bot, call, posts>>

\* The raw text is sanitized.
Sanitize ==
    /\ phase = "input"
    /\ phase' = "sanitized"
    /\ sane' = [stage |-> "once", text |-> sane.text,
                uids_to_remove |-> sane.uids_to_remove,
                once |-> _sanitize_user_message(sane.text, sane.uids_to_remove)]
    /\ UNCHANGED Unsanitized

\* The sanitized text is sanitized again, with the same ids.
Resanitize ==
    /\ phase = "sanitized"
    /\ phase' = "resanitized"
    /\ sane' = [stage |-> "twice", text |-> sane.text,
                uids_to_remove |-> sane.uids_to_remove,
                once |-> sane.once,
                twice |-> _sanitize_user_message(sane.once, sane.uids_to_remove)]
    /\ UNCHANGED Unsanitized

NextSanitize ==
    \/ Sanitize
    \/ Resanitize

SpecSanitize == InitSanitize /\ [][NextSanitize]_vars

-----------------------------------------------------------------------------
(* Claims about sanitization, checked under SpecSanitize *)

\* The text holds the mention token <@uid> somewhere.
HasMention(text, uid) ==
    \E k \in 1..(Len(text) - 1) : text[k] = "<@" /\ text[k + 1] = uid \o ">"

\* The text holds no mention token of any of the ids.
NoMentionLeft(text, uids) ==
    \A k \in 1..Len(uids) : ~ HasMention(text, uids[k])

\* C8 (as claimed): for every text and every list of ids, sanitizing the
\* sanitized text again changes nothing, and the sanitized text holds no
\* mention token of any of the ids.
C8_SanitizeIdempotent ==
    phase = "resanitized" =>
        /\ sane.twice = sane.once
        /\ NoMentionLeft(sane.once, sane.uids_to_remove)

\* C8 (amended): with a single id, the sanitized text holds no mention token
\* of that id and sanitizing it again changes nothing.  With several ids the
\* sanitized text can still hold a mention token (removing one id's token can
\* join the pieces of another's); sanitizing again is a no-op whenever the
\* sanitized text holds no mention token of the given ids.
C8_IdempotentWithoutMentions ==
    phase = "resanitized" =>
        /\ Len(sane.uids_to_remove) = 1 =>
               /\ NoMentionLeft(sane.once, sane.uids_to_remove)
               /\ sane.twice = sane.once
        /\ NoMentionLeft(sane.once, sane.uids_to_remove) => sane.twice = sane.once
        /\ sane.once = <<>> \/ (sane.once[1] # " " /\ sane.once[Len(sane.once)] # " ")

\* C8 witness: "<@A>x<@A>" with id A was sanitized to "x", and again to "x".
C8_Witness ==
    /\ phase = "resanitized"
    /\ sane.text = <<"<@", "A>", "x", "<@", "A>">>
    /\ sane.uids_to_remove = <<"A">>
    /\ sane.once = <<"x">>
    /\ sane.twice = <<"x">>

====
